---- MODULE Spec2Model ----
(***************************************************************************)
(* A model of the sc2-rs client core: the wire transport (src/src/api.rs), *)
(* the debug command batcher (src/src/debug.rs), the catalog decoder       *)
(* (src/src/game_data.rs), the score decoder (src/src/score.rs) and the    *)
(* game info decoder (src/src/game_info.rs).                               *)
(***************************************************************************)
EXTENDS Integers, Sequences, FiniteSets, TLC

(***************************************************************************)
(* Bounds of the model.                                                    *)
(***************************************************************************)
\* number of threads sharing one API handle
NumCallers == 2
\* requests written to the socket in one behaviour
MaxReq == 2

Callers == 1..NumCallers

(***************************************************************************)
(* Wire transport: API(Rl<WS>).                                            *)
(*   lock       holder of the connection's write lock (0: free)            *)
(*   opOf, pc   the operation each caller is in and its position in it     *)
(*   pending    the caller did send_only and has not yet called            *)
(*              wait_response                                              *)
(*   toEngine   requests written to the socket, not yet answered           *)
(*   fromEngine replies the engine wrote, not yet read by the client       *)
(*   connOk     the socket has not failed                                  *)
(*   nextId     number of requests written so far (request ids 1..nextId)  *)
(*   lastSent   id of the most recently written request                    *)
(*   nReads     number of messages read from the socket so far             *)
(*   cur        per caller: its own request, the message it read           *)
(*   result     per caller: what its last completed operation returned     *)
(***************************************************************************)
VARIABLES lock, opOf, pc, pending, toEngine, fromEngine, connOk,
          nextId, lastSent, nReads, cur, result

apiVars == <<lock, opOf, pc, pending, toEngine, fromEngine, connOk,
             nextId, lastSent, nReads, cur, result>>

(***************************************************************************)
(* Command batcher: Debugger.                                              *)
(*   debug_commands  Vec<DebugCommand>                                     *)
(*   debug_drawings  Vec<DebugDraw>                                        *)
(*   kill_tags       FxHashSet<u64>                                        *)
(*   returned        the slice the last get_commands returned (empty once  *)
(*                   the borrow has ended)                                 *)
(*   hist            what the caller has asked for so far (see NoHist)     *)
(***************************************************************************)
VARIABLES debug_commands, debug_drawings, kill_tags, returned, hist

dbgVars == <<debug_commands, debug_drawings, kill_tags, returned, hist>>

(***************************************************************************)
(* Catalog decoder: GameData::from_proto.                                  *)
(*   data       the ResponseData to decode                                 *)
(*   game_data  the GameData (GameData::default() until decoded)           *)
(*   decoded    from_proto has returned                                    *)
(***************************************************************************)
VARIABLES data, game_data, decoded

dataVars == <<data, game_data, decoded>>

(***************************************************************************)
(* Score decoder: Score::from_proto.                                       *)
(*   score      the ProtoScore to decode                                   *)
(*   score_out  what from_proto did: status "none" (not called), "ok"      *)
(*              (returned value, a Score), "panic" (the call aborted)      *)
(***************************************************************************)
VARIABLES score, score_out

scoreVars == <<score, score_out>>

(***************************************************************************)
(* Game info decoder: GameInfo::from_proto, and DebugCommand::into_proto.  *)
(*   response_game_info  the ResponseGameInfo to decode                    *)
(*   game_info           what from_proto did: status "none", "ok" (value,  *)
(*                       a GameInfo) or "panic"                            *)
(*   debug_command       a DebugCommand::CreateUnit to encode              *)
(*   proto_debug_command what into_proto returned for it ({}: not called)  *)
(***************************************************************************)
VARIABLES response_game_info, game_info, debug_command, proto_debug_command

infoVars == <<response_game_info, game_info>>

protoVars == <<debug_command, proto_debug_command>>

\* the state of the conversions other than the catalog decoder
convVars == <<scoreVars, infoVars, protoVars>>

vars == <<apiVars, dbgVars, dataVars, convVars>>

nonApiVars == <<dbgVars, dataVars, convVars>>

nonDbgVars == <<apiVars, dataVars, convVars>>

\* What an operation remembers of its socket events:
\*   own           id of the request it wrote (0: none)
\*   clean         no request was outstanding when it wrote
\*   readsAtWrite  messages read from the socket before it wrote
\*   msg           the message it read: the id of the request it answers
\*   seq           msg was the seq-th message read from the socket
\*   sentAtRead    the most recently written request when it read
NoCur == [own |-> 0, clean |-> FALSE, readsAtWrite |-> 0, msg |-> 0, seq |-> 0,
          sentAtRead |-> 0]
\* status: "none" (running), "ok" (a Response), "unit" (Ok(())), "err"
NoResult == [op |-> "none", status |-> "none", reply |-> 0, own |-> 0,
             clean |-> FALSE, readsAtWrite |-> 0, seq |-> 0, sentAtRead |-> 0]

\* requests written whose reply has not been read
Outstanding == Len(toEngine) + Len(fromEngine)

InitTransport ==
    /\ lock = 0
    /\ opOf = [c \in Callers |-> "none"]
    /\ pc = [c \in Callers |-> "idle"]
    /\ pending = [c \in Callers |-> FALSE]
    /\ toEngine = <<>>
    /\ fromEngine = <<>>
    /\ connOk = TRUE
    /\ nextId = 0
    /\ lastSent = 0
    /\ nReads = 0
    /\ cur = [c \in Callers |-> NoCur]
    /\ result = [c \in Callers |-> NoResult]

\* A caller enters operation o and blocks on write_lock().
Call(c, o) ==
    /\ pc[c] = "idle"
    /\ opOf' = [opOf EXCEPT ![c] = o]
    /\ pc' = [pc EXCEPT ![c] = "lock"]
    /\ cur' = [cur EXCEPT ![c] = NoCur]
    /\ result' = [result EXCEPT ![c] = [NoResult EXCEPT !.op = o]]

\* write_lock() returns: exclusive access, granted only when nobody holds it.
Acquire(c, o, next) ==
    /\ pc[c] = "lock"
    /\ opOf[c] = o
    /\ lock = 0
    /\ lock' = c
    /\ pc' = [pc EXCEPT ![c] = next]

\* The operation returns to its caller with the given status.
Return(c, status) ==
    /\ pc' = [pc EXCEPT ![c] = "idle"]
    /\ opOf' = [opOf EXCEPT ![c] = "none"]
    /\ result' = [result EXCEPT ![c] =
                    [@ EXCEPT !.status = status,
                              !.reply = IF status = "ok" THEN cur[c].msg ELSE 0,
                              !.own = cur[c].own,
                              !.clean = cur[c].clean,
                              !.readsAtWrite = cur[c].readsAtWrite,
                              !.seq = cur[c].seq,
                              !.sentAtRead = cur[c].sentAtRead]]

\* ws.send(Binary(req.write_to_bytes()?.into()))? succeeded: one message on the wire.
WriteOk(c) ==
    /\ connOk
    /\ nextId' = nextId + 1
    /\ lastSent' = nextId + 1
    /\ toEngine' = Append(toEngine, nextId + 1)
    /\ cur' = [cur EXCEPT ![c] = [@ EXCEPT !.own = nextId + 1,
                                           !.clean = (Outstanding = 0),
                                           !.readsAtWrite = nReads]]
    /\ UNCHANGED <<connOk, fromEngine, nReads>>

\* ws.read()? succeeded: the next inbound message is taken off the socket.
ReadOk(c) ==
    /\ connOk
    /\ fromEngine # <<>>
    /\ fromEngine' = Tail(fromEngine)
    /\ nReads' = nReads + 1
    /\ cur' = [cur EXCEPT ![c] = [@ EXCEPT !.msg = Head(fromEngine),
                                           !.seq = nReads + 1,
                                           !.sentAtRead = lastSent]]
    /\ UNCHANGED <<connOk, toEngine, nextId, lastSent>>

\* A socket write or read fails: the connection is unusable from then on.
SocketFail ==
    /\ connOk' = FALSE
    /\ UNCHANGED <<toEngine, fromEngine, nextId, lastSent, nReads, cur>>

(***************************************************************************)
(* API::send: lock, encode + write, read, decode, all under one guard      *)
(* (`ws` lives to the end of the function).                                *)
(***************************************************************************)
SendCall(c) ==
    /\ ~pending[c]
    /\ nextId + Cardinality({d \in Callers : pc[d] \in {"lock", "write"}
                                              /\ opOf[d] # "wait_response"}) < MaxReq
    /\ Call(c, "send")
    /\ UNCHANGED <<lock, pending, toEngine, fromEngine, connOk, nextId, lastSent, nReads>>
    /\ UNCHANGED nonApiVars

\* Mutant: send takes the connection shared (read_lock) instead of exclusive.
SendLock_Shared(c) ==
    /\ pc[c] = "lock"
    /\ opOf[c] = "send"
    /\ pc' = [pc EXCEPT ![c] = "write"]
    /\ UNCHANGED <<lock, opOf, pending, toEngine, fromEngine, connOk, nextId, lastSent,
                   nReads, cur, result>>
    /\ UNCHANGED nonApiVars

SendLock(c) ==
    /\ Acquire(c, "send", "write")
    /\ UNCHANGED <<opOf, pending, toEngine, fromEngine, connOk, nextId, lastSent,
                   nReads, cur, result>>
    /\ UNCHANGED nonApiVars

\* Mutant: send's guard is a temporary of the write statement, dropped
\* before the read (as in send_only).
SendWrite_DropsGuard(c) ==
    /\ pc[c] = "write"
    /\ opOf[c] = "send"
    /\ WriteOk(c)
    /\ pc' = [pc EXCEPT ![c] = "read"]
    /\ lock' = 0
    /\ UNCHANGED <<opOf, pending, result>>
    /\ UNCHANGED nonApiVars

\* Mutant: send ignores the result of the write (`let _ = ws.send(..)`) and
\* goes on to read.
SendWrite_IgnoresFailure(c) ==
    /\ pc[c] = "write"
    /\ opOf[c] = "send"
    /\ \E out \in {"ok", "write_err"} :
          CASE out = "ok" ->
                  /\ WriteOk(c)
                  /\ pc' = [pc EXCEPT ![c] = "read"]
                  /\ UNCHANGED <<lock, opOf, pending, result>>
            [] out = "write_err" ->
                  /\ SocketFail
                  /\ pc' = [pc EXCEPT ![c] = "read"]
                  /\ UNCHANGED <<lock, opOf, pending, result>>
    /\ UNCHANGED nonApiVars

SendWrite(c) ==
    /\ pc[c] = "write"
    /\ opOf[c] = "send"
    /\ \E out \in {"ok", "encode_err", "write_err"} :
          CASE out = "ok" ->
                  /\ WriteOk(c)
                  /\ pc' = [pc EXCEPT ![c] = "read"]
                  /\ UNCHANGED <<lock, opOf, pending, result>>
            [] out = "encode_err" ->
                  /\ Return(c, "err")
                  /\ lock' = 0
                  /\ UNCHANGED <<pending, toEngine, fromEngine, connOk, nextId,
                                 lastSent, nReads, cur>>
            [] out = "write_err" ->
                  /\ SocketFail
                  /\ Return(c, "err")
                  /\ lock' = 0
                  /\ UNCHANGED pending
    /\ UNCHANGED nonApiVars

SendRead(c) ==
    /\ pc[c] = "read"
    /\ opOf[c] = "send"
    /\ \E out \in {"ok", "read_err"} :
          CASE out = "ok" ->
                  /\ ReadOk(c)
                  /\ pc' = [pc EXCEPT ![c] = "decode"]
                  /\ UNCHANGED <<lock, opOf, pending, result>>
            [] out = "read_err" ->
                  /\ SocketFail
                  /\ Return(c, "err")
                  /\ lock' = 0
                  /\ UNCHANGED pending
    /\ UNCHANGED nonApiVars

\* Mutant: send returns without dropping its guard (the guard is leaked).
SendDecode_LeaksGuard(c) ==
    /\ pc[c] = "decode"
    /\ opOf[c] = "send"
    /\ \E out \in {"ok", "err"} : Return(c, out)
    /\ UNCHANGED <<lock, pending, toEngine, fromEngine, connOk, nextId, lastSent, nReads, cur>>
    /\ UNCHANGED nonApiVars

SendDecode(c) ==
    /\ pc[c] = "decode"
    /\ opOf[c] = "send"
    /\ \E out \in {"ok", "err"} : Return(c, out)
    /\ lock' = 0
    /\ UNCHANGED <<pending, toEngine, fromEngine, connOk, nextId, lastSent, nReads, cur>>
    /\ UNCHANGED nonApiVars

(***************************************************************************)
(* API::send_request: as send, but the message read is dropped undecoded.  *)
(***************************************************************************)
SendRequestCall(c) ==
    /\ ~pending[c]
    /\ nextId + Cardinality({d \in Callers : pc[d] \in {"lock", "write"}
                                              /\ opOf[d] # "wait_response"}) < MaxReq
    /\ Call(c, "send_request")
    /\ UNCHANGED <<lock, pending, toEngine, fromEngine, connOk, nextId, lastSent, nReads>>
    /\ UNCHANGED nonApiVars

SendRequestLock(c) ==
    /\ Acquire(c, "send_request", "write")
    /\ UNCHANGED <<opOf, pending, toEngine, fromEngine, connOk, nextId, lastSent,
                   nReads, cur, result>>
    /\ UNCHANGED nonApiVars

SendRequestWrite(c) ==
    /\ pc[c] = "write"
    /\ opOf[c] = "send_request"
    /\ \E out \in {"ok", "encode_err", "write_err"} :
          CASE out = "ok" ->
                  /\ WriteOk(c)
                  /\ pc' = [pc EXCEPT ![c] = "read"]
                  /\ UNCHANGED <<lock, opOf, pending, result>>
            [] out = "encode_err" ->
                  /\ Return(c, "err")
                  /\ lock' = 0
                  /\ UNCHANGED <<pending, toEngine, fromEngine, connOk, nextId,
                                 lastSent, nReads, cur>>
            [] out = "write_err" ->
                  /\ SocketFail
                  /\ Return(c, "err")
                  /\ lock' = 0
                  /\ UNCHANGED pending
    /\ UNCHANGED nonApiVars

\* Mutant: send_request returns after the write, leaving the reply unread.
SendRequestRead_NoRead(c) ==
    /\ pc[c] = "read"
    /\ opOf[c] = "send_request"
    /\ pc' = [pc EXCEPT ![c] = "idle"]
    /\ opOf' = [opOf EXCEPT ![c] = "none"]
    /\ result' = [result EXCEPT ![c] = [@ EXCEPT !.status = "unit"]]
    /\ lock' = 0
    /\ UNCHANGED <<pending, toEngine, fromEngine, connOk, nextId, lastSent, nReads, cur>>
    /\ UNCHANGED nonApiVars

SendRequestRead(c) ==
    /\ pc[c] = "read"
    /\ opOf[c] = "send_request"
    /\ \E out \in {"ok", "read_err"} :
          CASE out = "ok" ->
                  /\ ReadOk(c)
                  /\ pc' = [pc EXCEPT ![c] = "idle"]
                  /\ opOf' = [opOf EXCEPT ![c] = "none"]
                  /\ result' = [result EXCEPT ![c] = [@ EXCEPT !.status = "unit"]]
                  /\ lock' = 0
                  /\ UNCHANGED pending
            [] out = "read_err" ->
                  /\ SocketFail
                  /\ Return(c, "err")
                  /\ lock' = 0
                  /\ UNCHANGED pending
    /\ UNCHANGED nonApiVars

(***************************************************************************)
(* API::send_only: the guard is a temporary of the one statement that      *)
(* encodes and writes; nothing is read.                                    *)
(***************************************************************************)
SendOnlyCall(c) ==
    /\ ~pending[c]
    /\ nextId + Cardinality({d \in Callers : pc[d] \in {"lock", "write"}
                                              /\ opOf[d] # "wait_response"}) < MaxReq
    /\ Call(c, "send_only")
    /\ UNCHANGED <<lock, pending, toEngine, fromEngine, connOk, nextId, lastSent, nReads>>
    /\ UNCHANGED nonApiVars

\* Mutant: send_only writes without taking the connection.
SendOnlyLock_NoLock(c) ==
    /\ pc[c] = "lock"
    /\ opOf[c] = "send_only"
    /\ pc' = [pc EXCEPT ![c] = "write"]
    /\ UNCHANGED <<lock, opOf, pending, toEngine, fromEngine, connOk, nextId, lastSent,
                   nReads, cur, result>>
    /\ UNCHANGED nonApiVars

SendOnlyLock(c) ==
    /\ Acquire(c, "send_only", "write")
    /\ UNCHANGED <<opOf, pending, toEngine, fromEngine, connOk, nextId, lastSent,
                   nReads, cur, result>>
    /\ UNCHANGED nonApiVars

\* Mutant: after its write send_only goes on to read the reply, as send does.
SendOnlyWrite_AwaitsReply(c) ==
    /\ pc[c] = "write"
    /\ opOf[c] = "send_only"
    /\ WriteOk(c)
    /\ pc' = [pc EXCEPT ![c] = "read"]
    /\ UNCHANGED <<lock, opOf, pending, result>>
    /\ UNCHANGED nonApiVars

SendOnlyWrite(c) ==
    /\ pc[c] = "write"
    /\ opOf[c] = "send_only"
    /\ \E out \in {"ok", "encode_err", "write_err"} :
          CASE out = "ok" ->
                  /\ WriteOk(c)
                  /\ pc' = [pc EXCEPT ![c] = "idle"]
                  /\ opOf' = [opOf EXCEPT ![c] = "none"]
                  /\ result' = [result EXCEPT ![c] = [@ EXCEPT !.status = "unit"]]
                  /\ pending' = [pending EXCEPT ![c] = TRUE]
                  /\ lock' = 0
            [] out = "encode_err" ->
                  /\ Return(c, "err")
                  /\ lock' = 0
                  /\ UNCHANGED <<pending, toEngine, fromEngine, connOk, nextId,
                                 lastSent, nReads, cur>>
            [] out = "write_err" ->
                  /\ SocketFail
                  /\ Return(c, "err")
                  /\ lock' = 0
                  /\ UNCHANGED pending
    /\ UNCHANGED nonApiVars

(***************************************************************************)
(* API::wait_response: the guard is a temporary of the `let msg = ...`     *)
(* statement, so it is dropped after the read and before the decode.       *)
(***************************************************************************)
WaitResponseCall(c) ==
    /\ pending[c]
    /\ pc[c] = "idle"
    /\ opOf' = [opOf EXCEPT ![c] = "wait_response"]
    /\ pc' = [pc EXCEPT ![c] = "lock"]
    /\ result' = [result EXCEPT ![c] = [NoResult EXCEPT !.op = "wait_response"]]
    /\ pending' = [pending EXCEPT ![c] = FALSE]
    /\ UNCHANGED <<lock, toEngine, fromEngine, connOk, nextId, lastSent, nReads, cur>>
    /\ UNCHANGED nonApiVars

\* wait_response is public: nothing stops a caller that has no send_only of
\* its own outstanding from calling it.
WaitResponseCallUnpaired(c) ==
    /\ ~pending[c]
    /\ pc[c] = "idle"
    /\ opOf' = [opOf EXCEPT ![c] = "wait_response"]
    /\ pc' = [pc EXCEPT ![c] = "lock"]
    /\ cur' = [cur EXCEPT ![c] = NoCur]
    /\ result' = [result EXCEPT ![c] = [NoResult EXCEPT !.op = "wait_response"]]
    /\ UNCHANGED <<lock, pending, toEngine, fromEngine, connOk, nextId, lastSent, nReads>>
    /\ UNCHANGED nonApiVars

\* Mutant: wait_response reads without taking the connection.
WaitResponseLock_NoGuard(c) ==
    /\ pc[c] = "lock"
    /\ opOf[c] = "wait_response"
    /\ pc' = [pc EXCEPT ![c] = "read"]
    /\ UNCHANGED <<lock, opOf, pending, toEngine, fromEngine, connOk, nextId, lastSent,
                   nReads, cur, result>>
    /\ UNCHANGED nonApiVars

WaitResponseLock(c) ==
    /\ Acquire(c, "wait_response", "read")
    /\ UNCHANGED <<opOf, pending, toEngine, fromEngine, connOk, nextId, lastSent,
                   nReads, cur, result>>
    /\ UNCHANGED nonApiVars

WaitResponseRead(c) ==
    /\ pc[c] = "read"
    /\ opOf[c] = "wait_response"
    /\ \E out \in {"ok", "read_err"} :
          CASE out = "ok" ->
                  /\ ReadOk(c)
                  /\ pc' = [pc EXCEPT ![c] = "decode"]
                  /\ lock' = 0
                  /\ UNCHANGED <<opOf, pending, result>>
            [] out = "read_err" ->
                  /\ SocketFail
                  /\ Return(c, "err")
                  /\ lock' = 0
                  /\ UNCHANGED pending
    /\ UNCHANGED nonApiVars

WaitResponseDecode(c) ==
    /\ pc[c] = "decode"
    /\ opOf[c] = "wait_response"
    /\ \E out \in {"ok", "err"} : Return(c, out)
    /\ UNCHANGED <<lock, pending, toEngine, fromEngine, connOk, nextId, lastSent,
                   nReads, cur>>
    /\ UNCHANGED nonApiVars

(***************************************************************************)
(* The engine answers the requests in the order they were written.         *)
(***************************************************************************)
EngineReply ==
    /\ connOk
    /\ toEngine # <<>>
    /\ fromEngine' = Append(fromEngine, Head(toEngine))
    /\ toEngine' = Tail(toEngine)
    /\ UNCHANGED <<lock, opOf, pc, pending, connOk, nextId, lastSent, nReads, cur, result>>
    /\ UNCHANGED nonApiVars

(***************************************************************************)
(* Command batcher: Debugger (src/src/debug.rs).                           *)
(***************************************************************************)
\* commands queued and not yet cleared, counted by their operations
MaxQueued == 3
\* entries of one create_units, set_unit_values or kill_units call
MaxArgs == 2
\* unit tags 1..NumTags
NumTags == 2

Tags == 1..NumTags

\* DebugGameState: the cheat methods differ only in the variant they push;
\* the model takes one of the twelve.
DebugGameStates == {"ShowMap"}
\* (unit type, owner, position, count) tuples and (tag, value type, value)
\* tuples a caller passes.
CreateUnitArgs == {"marine"}
SetUnitValueArgs == {"energy"}
\* DebugDraw, by variant (texts, positions, colours and sizes left out).
DrawArgs == {"Text", "Line", "Box", "Sphere"}

\* DebugCommand
GameState(gs) == [kind |-> "GameState", arg |-> gs, draws |-> <<>>, tags |-> <<>>]
CreateUnit(u) == [kind |-> "CreateUnit", arg |-> u, draws |-> <<>>, tags |-> <<>>]
SetUnitValue(v) == [kind |-> "SetUnitValue", arg |-> v, draws |-> <<>>, tags |-> <<>>]
EndGame(win) == [kind |-> "EndGame", arg |-> win, draws |-> <<>>, tags |-> <<>>]
Draw(ds) == [kind |-> "Draw", arg |-> "", draws |-> ds, tags |-> <<>>]
KillUnit(ts) == [kind |-> "KillUnit", arg |-> "", draws |-> <<>>, tags |-> ts]

Range(f) == {f[i] : i \in DOMAIN f}

\* sequences over S of length at most n
SeqsUpTo(S, n) == UNION {[1..k -> S] : k \in 0..n}

\* kill_tags.drain().collect(): the tags, each once, in the set's iteration
\* order, which the code does not fix.
DrainOrders(S) ==
    {s \in [1..Cardinality(S) -> S] : \A i, j \in DOMAIN s : s[i] = s[j] => i = j}

RECURSIVE Weight(_)
Weight(cmds) ==
    IF cmds = <<>> THEN 0
    ELSE LET c == Head(cmds)
         IN (IF c.kind = "Draw" THEN Len(c.draws)
             ELSE IF c.kind = "KillUnit" THEN Len(c.tags) ELSE 1)
            + Weight(Tail(cmds))

\* operations held by the batcher
Queued == Weight(debug_commands) + Len(debug_drawings) + Cardinality(kill_tags)

\* Idle: no pending commands
Idle == debug_commands = <<>> /\ debug_drawings = <<>> /\ kill_tags = {}

\* What the caller has asked of the batcher:
\*   lastOp        the last call: "new" (none yet), "queue", "get", "clear"
\*   prevOp        the call before it
\*   flushed       get_commands was called since the last clear_commands
\*   requeued      an operation was queued between a get_commands and the
\*                 clear_commands that follows it
\*   indep         independent commands issued since the last clear_commands
\*   draws, tags   draws and kill tags queued since the last get_commands
\*   unsent        independent commands queued since the last get_commands
\*                 or clear_commands
\*   flushedDraws, flushedTags
\*                 draws and kill tags queued before a get_commands that no
\*                 clear_commands has followed yet
\*   run           "idle": the batcher is idle and nothing was called since;
\*                 "kills": since it was idle, kill_units calls only (one at
\*                 least); "flushed": those, then one get_commands; "off"
\*                 otherwise
NoHist == [lastOp |-> "new", prevOp |-> "new", flushed |-> FALSE, requeued |-> FALSE, indep |-> <<>>,
           draws |-> <<>>, tags |-> {}, flushedDraws |-> <<>>, flushedTags |-> {},
           unsent |-> <<>>, run |-> "idle"]

InitDebugger ==
    /\ debug_commands = <<>>
    /\ debug_drawings = <<>>
    /\ kill_tags = {}
    /\ returned = <<>>
    /\ hist = NoHist

\* hist at the start of a call: a sequence of calls starts afresh whenever
\* the batcher is idle.
HistAtCall ==
    IF Idle /\ hist.run # "kills"
    THEN [hist EXCEPT !.run = "idle", !.flushedTags = {}]
    ELSE hist

\* hist after a call that queues something (kills: whether it was kill_units)
HistQueued(kills) ==
    [HistAtCall EXCEPT !.lastOp = "queue",
                       !.prevOp = hist.lastOp,
                       !.requeued = @ \/ hist.flushed,
                       !.run = IF kills /\ @ \in {"idle", "kills"} THEN "kills" ELSE "off"]

\* self.debug_commands.push(cmd) / .extend(cmds), for the independent commands
PushCommands(cmds) ==
    /\ Queued + Len(cmds) <= MaxQueued
    /\ debug_commands' = debug_commands \o cmds
    /\ hist' = [HistQueued(FALSE) EXCEPT !.indep = @ \o cmds, !.unsent = @ \o cmds]
    /\ returned' = <<>>
    /\ UNCHANGED <<debug_drawings, kill_tags>>

\* Mutant: the drawing is inserted in front (insert(0, d)) instead of pushed.
PushDrawing_Front(d) ==
    /\ Queued + 1 <= MaxQueued
    /\ debug_drawings' = <<d>> \o debug_drawings
    /\ hist' = [HistQueued(FALSE) EXCEPT !.draws = Append(@, d)]
    /\ returned' = <<>>
    /\ UNCHANGED <<debug_commands, kill_tags>>

\* self.debug_drawings.push(d)
PushDrawing(d) ==
    /\ Queued + 1 <= MaxQueued
    /\ debug_drawings' = Append(debug_drawings, d)
    /\ hist' = [HistQueued(FALSE) EXCEPT !.draws = Append(@, d)]
    /\ returned' = <<>>
    /\ UNCHANGED <<debug_commands, kill_tags>>

\* hist after get_commands
HistFlushed ==
    [HistAtCall EXCEPT !.lastOp = "get",
                       !.prevOp = hist.lastOp,
                       !.flushed = TRUE,
                       !.flushedDraws = @ \o hist.draws,
                       !.flushedTags = @ \cup hist.tags,
                       !.draws = <<>>,
                       !.tags = {},
                       !.unsent = <<>>,
                       !.run = IF @ = "kills" THEN "flushed" ELSE "off"]

\* Mutant: the kill batch is pushed before the draw batch.
get_commands_KillFirst ==
    \E order \in DrainOrders(kill_tags) :
       LET withKill == IF kill_tags # {}
                       THEN Append(debug_commands, KillUnit(order))
                       ELSE debug_commands
           commands == IF debug_drawings # <<>>
                       THEN Append(withKill, Draw(debug_drawings))
                       ELSE withKill
       IN /\ debug_commands' = commands
          /\ debug_drawings' = <<>>
          /\ kill_tags' = {}
          /\ returned' = commands
          /\ hist' = HistFlushed
    /\ UNCHANGED nonDbgVars

\* Mutant: the list is moved out (std::mem::take), leaving nothing behind.
get_commands_Takes ==
    \E order \in DrainOrders(kill_tags) :
       LET withDraw == IF debug_drawings # <<>>
                       THEN Append(debug_commands, Draw(debug_drawings))
                       ELSE debug_commands
           commands == IF kill_tags # {}
                       THEN Append(withDraw, KillUnit(order))
                       ELSE withDraw
       IN /\ debug_commands' = <<>>
          /\ debug_drawings' = <<>>
          /\ kill_tags' = {}
          /\ returned' = commands
          /\ hist' = HistFlushed
    /\ UNCHANGED nonDbgVars

\* Mutant: the batches are pushed without the is_empty() checks.
get_commands_PushesEmpty ==
    \E order \in DrainOrders(kill_tags) :
       LET withDraw == Append(debug_commands, Draw(debug_drawings))
           commands == Append(withDraw, KillUnit(order))
       IN /\ debug_commands' = commands
          /\ debug_drawings' = <<>>
          /\ kill_tags' = {}
          /\ returned' = commands
          /\ hist' = HistFlushed
    /\ UNCHANGED nonDbgVars

get_commands ==
    \E order \in DrainOrders(kill_tags) :
       LET withDraw == IF debug_drawings # <<>>
                       THEN Append(debug_commands, Draw(debug_drawings))
                       ELSE debug_commands
           commands == IF kill_tags # {}
                       THEN Append(withDraw, KillUnit(order))
                       ELSE withDraw
       IN /\ debug_commands' = commands
          /\ debug_drawings' = <<>>
          /\ kill_tags' = {}
          /\ returned' = commands
          /\ hist' = HistFlushed
    /\ UNCHANGED nonDbgVars

\* hist after clear_commands
HistCleared ==
    [HistAtCall EXCEPT !.lastOp = "clear", !.prevOp = hist.lastOp,
                       !.flushed = FALSE, !.requeued = FALSE, !.indep = <<>>,
                       !.flushedDraws = <<>>, !.flushedTags = {}, !.unsent = <<>>,
                       !.run = "off"]

\* Mutant: the wrong buffer is cleared (debug_drawings for debug_commands).
clear_commands_WrongBuffer ==
    /\ debug_drawings' = <<>>
    /\ returned' = <<>>
    /\ hist' = HistCleared
    /\ UNCHANGED <<debug_commands, kill_tags>>
    /\ UNCHANGED nonDbgVars

clear_commands ==
    /\ debug_commands' = <<>>
    /\ returned' = <<>>
    /\ hist' = HistCleared
    /\ UNCHANGED <<debug_drawings, kill_tags>>
    /\ UNCHANGED nonDbgVars

draw_text_world == PushDrawing("Text") /\ UNCHANGED nonDbgVars

draw_text_screen == PushDrawing("Text") /\ UNCHANGED nonDbgVars

draw_line == PushDrawing("Line") /\ UNCHANGED nonDbgVars

draw_box == PushDrawing("Box") /\ UNCHANGED nonDbgVars

draw_cube == PushDrawing("Box") /\ UNCHANGED nonDbgVars

draw_sphere == PushDrawing("Sphere") /\ UNCHANGED nonDbgVars

create_units ==
    /\ \E cmds \in SeqsUpTo(CreateUnitArgs, MaxArgs) : PushCommands([i \in DOMAIN cmds |-> CreateUnit(cmds[i])])
    /\ UNCHANGED nonDbgVars

\* Mutant: the tags replace the set instead of extending it.
kill_units_Replaces ==
    /\ \E tags \in SeqsUpTo(Tags, MaxArgs) :
          /\ Queued + Cardinality(Range(tags) \ kill_tags) <= MaxQueued
          /\ kill_tags' = Range(tags)
          /\ hist' = [HistQueued(TRUE) EXCEPT !.tags = @ \cup Range(tags)]
    /\ returned' = <<>>
    /\ UNCHANGED <<debug_commands, debug_drawings>>
    /\ UNCHANGED nonDbgVars

kill_units ==
    /\ \E tags \in SeqsUpTo(Tags, MaxArgs) :
          /\ Queued + Cardinality(Range(tags) \ kill_tags) <= MaxQueued
          /\ kill_tags' = kill_tags \cup Range(tags)
          /\ hist' = [HistQueued(TRUE) EXCEPT !.tags = @ \cup Range(tags)]
    /\ returned' = <<>>
    /\ UNCHANGED <<debug_commands, debug_drawings>>
    /\ UNCHANGED nonDbgVars

set_unit_values ==
    /\ \E cmds \in SeqsUpTo(SetUnitValueArgs, MaxArgs) :
          PushCommands([i \in DOMAIN cmds |-> SetUnitValue(cmds[i])])
    /\ UNCHANGED nonDbgVars

win_game == PushCommands(<<EndGame("true")>>) /\ UNCHANGED nonDbgVars

end_game == PushCommands(<<EndGame("false")>>) /\ UNCHANGED nonDbgVars

\* show_map, control_enemy, cheat_*: push GameState(variant)
cheat ==
    /\ \E gs \in DebugGameStates : PushCommands(<<GameState(gs)>>)
    /\ UNCHANGED nonDbgVars

NextDebugger ==
    \/ get_commands
    \/ clear_commands
    \/ draw_text_world
    \/ draw_text_screen
    \/ draw_line
    \/ draw_box
    \/ draw_cube
    \/ draw_sphere
    \/ create_units
    \/ kill_units
    \/ set_unit_values
    \/ win_game
    \/ end_game
    \/ cheat

(***************************************************************************)
(* Catalog decoder (src/src/game_data.rs).                                 *)
(***************************************************************************)
\* records in one ResponseData, all catalogs together
MaxRecords == 2
\* engine codes 0..MaxCode
MaxCode == 2

Codes == 0..MaxCode

\* Option<T>: {} is None, {v} is Some(v)
Option(S) == {{}} \cup {{v} : v \in S}

\* The identifier enumerations: each a subset of the engine's codes, an
\* identifier being its code.
AbilityIds == {0, 1}
UnitTypeIds == {1, 2}
UpgradeIds == {0, 2}
BuffIds == {1}

\* EffectId: the variants EffectData::try_from_proto names, and one more.
EffectId_Null == 0
EffectId_PsiStormPersistent == 1
EffectId_ScannerSweep == 6
EffectId_NukePersistent == 7
EffectId_RavagerCorrosiveBileCP == 11
EffectId_LurkerMP == 12
EffectIds == {EffectId_Null, EffectId_PsiStormPersistent, EffectId_ScannerSweep,
              EffectId_NukePersistent, EffectId_RavagerCorrosiveBileCP, EffectId_LurkerMP}

\* FromPrimitive::from_u32 of each enumeration
AbilityId_from_u32(code) == IF code \in AbilityIds THEN {code} ELSE {}
UnitTypeId_from_u32(code) == IF code \in UnitTypeIds THEN {code} ELSE {}
UpgradeId_from_u32(code) == IF code \in UpgradeIds THEN {code} ELSE {}
BuffId_from_u32(code) == IF code \in BuffIds THEN {code} ELSE {}
EffectId_from_u32(code) == IF code \in EffectIds THEN {code} ELSE {}

\* The wire records: their identifier-valued fields and one field that is
\* copied as it is.  A unit's optional codes are drawn together, and its
\* tech_alias holds that code and code 1.
ProtoAbilityData ==
    [ability_id : Codes, link_name : {"x"}, remaps_to_ability_id : Option(Codes)]
ProtoUnitTypeData ==
    {[unit_id |-> id, name |-> "x", ability_id |-> o,
      tech_alias |-> IF o = {} THEN <<>> ELSE <<CHOOSE c \in o : TRUE, 1>>,
      unit_alias |-> o, tech_requirement |-> o] : id \in Codes, o \in Option(Codes)}
ProtoUpgradeData == [upgrade_id : Codes, ability_id : Codes, name : {"x"}]
ProtoBuffData == [buff_id : Codes, name : {"x", "y"}]
ProtoEffectData == [effect_id : Codes, name : {"x", "y"}]

\* effect codes 0..MaxEffectCode: every EffectId of the model and more
MaxEffectCode == 13
EffectCodes == 0..MaxEffectCode
ProtoEffectDataAll == [effect_id : EffectCodes, name : {"x", "y"}]

\* Option::and_then(AbilityId::from_u32), Option::and_then(UnitTypeId::from_u32)
AndThenAbilityId(o) == UNION {AbilityId_from_u32(c) : c \in o}
AndThenUnitTypeId(o) == UNION {UnitTypeId_from_u32(c) : c \in o}

IsUnitTypeId(code) == UnitTypeId_from_u32(code) # {}

\* Mutant: the remap code is required (`?` in place of and_then).
AbilityData_try_from_proto_RemapRequired(a) ==
    IF AbilityId_from_u32(a.ability_id) = {} THEN {}
    ELSE IF AndThenAbilityId(a.remaps_to_ability_id) = {} THEN {}
    ELSE {[id |-> a.ability_id,
           link_name |-> a.link_name,
           remaps_to_ability_id |-> AndThenAbilityId(a.remaps_to_ability_id)]}

\* TryFromProto: {} is None, {record} is Some(record)
AbilityData_try_from_proto(a) ==
    IF AbilityId_from_u32(a.ability_id) = {} THEN {}
    ELSE {[id |-> a.ability_id,
           link_name |-> a.link_name,
           remaps_to_ability_id |-> AndThenAbilityId(a.remaps_to_ability_id)]}

UnitTypeData_try_from_proto(u) ==
    IF UnitTypeId_from_u32(u.unit_id) = {} THEN {}
    ELSE {[id |-> u.unit_id,
           name |-> u.name,
           ability |-> AndThenAbilityId(u.ability_id),
           tech_alias |-> SelectSeq(u.tech_alias, IsUnitTypeId),
           unit_alias |-> AndThenUnitTypeId(u.unit_alias),
           tech_requirement |-> AndThenUnitTypeId(u.tech_requirement)]}

UpgradeData_try_from_proto(u) ==
    IF UpgradeId_from_u32(u.upgrade_id) = {} THEN {}
    ELSE IF AbilityId_from_u32(u.ability_id) = {} THEN {}
    ELSE {[id |-> u.upgrade_id, ability |-> u.ability_id, name |-> u.name]}

BuffData_try_from_proto(b) ==
    IF BuffId_from_u32(b.buff_id) = {} THEN {}
    ELSE {[id |-> b.buff_id, name |-> b.name]}

\* Mutant: ScannerSweep is matched as friendly fire too (four identifiers).
EffectData_try_from_proto_FourFriendly(e) ==
    IF EffectId_from_u32(e.effect_id) = {} THEN {}
    ELSE {[id |-> e.effect_id,
           name |-> e.name,
           target |-> IF e.effect_id \in {EffectId_Null, EffectId_PsiStormPersistent,
                                          EffectId_ScannerSweep, EffectId_NukePersistent,
                                          EffectId_RavagerCorrosiveBileCP}
                      THEN "Any" ELSE "Ground",
           friendly_fire |-> e.effect_id \in {EffectId_PsiStormPersistent,
                                              EffectId_ScannerSweep,
                                              EffectId_NukePersistent,
                                              EffectId_RavagerCorrosiveBileCP}]}

EffectData_try_from_proto(e) ==
    IF EffectId_from_u32(e.effect_id) = {} THEN {}
    ELSE {[id |-> e.effect_id,
           name |-> e.name,
           target |-> IF e.effect_id \in {EffectId_Null, EffectId_PsiStormPersistent,
                                          EffectId_ScannerSweep, EffectId_NukePersistent,
                                          EffectId_RavagerCorrosiveBileCP}
                      THEN "Any" ELSE "Ground",
           friendly_fire |-> e.effect_id \in {EffectId_PsiStormPersistent,
                                              EffectId_NukePersistent,
                                              EffectId_RavagerCorrosiveBileCP}]}

\* Mutant: an identifier already in the map keeps its record.
Insert_KeepsFirst(map, rec) ==
    [k \in DOMAIN map \cup {rec.id} |-> IF k \in DOMAIN map THEN map[k] ELSE rec]

\* FxHashMap::insert(record.id, record): a later record replaces an earlier one
Insert(map, rec) ==
    [k \in DOMAIN map \cup {rec.id} |-> IF k = rec.id THEN rec ELSE map[k]]

\* if let Some(data) = ..try_from_proto(..) { map.insert(data.id, data) }
InsertSome(map, opt) == IF opt = {} THEN map ELSE Insert(map, CHOOSE d \in opt : TRUE)

\* The five loops of from_proto.
RECURSIVE AbilitiesFrom(_, _)
AbilitiesFrom(vec, map) ==
    IF vec = <<>> THEN map
    ELSE AbilitiesFrom(Tail(vec), InsertSome(map, AbilityData_try_from_proto(Head(vec))))

RECURSIVE UnitsFrom(_, _)
UnitsFrom(vec, map) ==
    IF vec = <<>> THEN map
    ELSE UnitsFrom(Tail(vec), InsertSome(map, UnitTypeData_try_from_proto(Head(vec))))

RECURSIVE UpgradesFrom(_, _)
UpgradesFrom(vec, map) ==
    IF vec = <<>> THEN map
    ELSE UpgradesFrom(Tail(vec), InsertSome(map, UpgradeData_try_from_proto(Head(vec))))

\* Mutant: the loop over the buffs ends at the first record it cannot resolve.
RECURSIVE BuffsFrom_StopsAtUnknown(_, _)
BuffsFrom_StopsAtUnknown(vec, map) ==
    IF vec = <<>> THEN map
    ELSE IF BuffData_try_from_proto(Head(vec)) = {} THEN map
    ELSE BuffsFrom_StopsAtUnknown(Tail(vec),
                                  InsertSome(map, BuffData_try_from_proto(Head(vec))))

RECURSIVE BuffsFrom(_, _)
BuffsFrom(vec, map) ==
    IF vec = <<>> THEN map
    ELSE BuffsFrom(Tail(vec), InsertSome(map, BuffData_try_from_proto(Head(vec))))

RECURSIVE EffectsFrom(_, _)
EffectsFrom(vec, map) ==
    IF vec = <<>> THEN map
    ELSE EffectsFrom(Tail(vec), InsertSome(map, EffectData_try_from_proto(Head(vec))))

\* GameData::default(), and a ResponseData without records
NoGameData == [abilities |-> <<>>, units |-> <<>>, upgrades |-> <<>>, buffs |-> <<>>,
               effects |-> <<>>]

\* GameData::from_proto
from_proto(d) ==
    [abilities |-> AbilitiesFrom(d.abilities, <<>>),
     units |-> UnitsFrom(d.units, <<>>),
     upgrades |-> UpgradesFrom(d.upgrades, <<>>),
     buffs |-> BuffsFrom(d.buffs, <<>>),
     effects |-> EffectsFrom(d.effects, <<>>)]

\* No response is being decoded.
InitNoData ==
    /\ data = NoGameData
    /\ game_data = NoGameData
    /\ decoded = FALSE

\* A ResponseData of at most MaxRecords records.
InitData ==
    /\ \E na \in 0..MaxRecords :
       \E nu \in 0..(MaxRecords - na) :
       \E np \in 0..(MaxRecords - na - nu) :
       \E nb \in 0..(MaxRecords - na - nu - np) :
       \E ne \in 0..(MaxRecords - na - nu - np - nb) :
          data \in [abilities : [1..na -> ProtoAbilityData],
                    units : [1..nu -> ProtoUnitTypeData],
                    upgrades : [1..np -> ProtoUpgradeData],
                    buffs : [1..nb -> ProtoBuffData],
                    effects : [1..ne -> ProtoEffectData]]
    /\ game_data = NoGameData
    /\ decoded = FALSE

\* A ResponseData of at most MaxRecords effects, of any effect code.
InitEffects ==
    /\ \E ne \in 0..MaxRecords :
          data \in [abilities : {<<>>}, units : {<<>>}, upgrades : {<<>>}, buffs : {<<>>},
                    effects : [1..ne -> ProtoEffectDataAll]]
    /\ game_data = NoGameData
    /\ decoded = FALSE

Decode ==
    /\ ~decoded
    /\ game_data' = from_proto(data)
    /\ decoded' = TRUE
    /\ UNCHANGED <<data, apiVars, dbgVars, convVars>>

NextGameData == Decode

(***************************************************************************)
(* Score decoder (src/src/score.rs).                                       *)
(***************************************************************************)
\* the CategoryScoreDetails and VitalScoreDetails fields of ScoreDetails
CategoryFields == {"food_used", "killed_minerals", "killed_vespene", "lost_minerals",
                   "lost_vespene", "friendly_fire_minerals", "friendly_fire_vespene",
                   "used_minerals", "used_vespene", "total_used_minerals",
                   "total_used_vespene"}
VitalFields == {"total_damage_dealt", "total_damage_taken", "total_healed"}

\* Category::default(), Vital::default(): the values of an empty sub-message
DefaultCategory == [none |-> 0, army |-> 0, economy |-> 0, technology |-> 0, upgrade |-> 0]
DefaultVital == [life |-> 0, shields |-> 0, energy |-> 0]

\* a CategoryScoreDetails and a VitalScoreDetails the engine has filled in
SentCategory == [none |-> 1, army |-> 2, economy |-> 3, technology |-> 4, upgrade |-> 5]
SentVital == [life |-> 1, shields |-> 2, energy |-> 3]

\* ScoreDetails: each sub-message is missing ({}) or sent; `floats` stands
\* for the fourteen f32 fields, which are copied.
ProtoScoreDetails ==
    [categories : [CategoryFields -> Option({SentCategory})],
     vitals : [VitalFields -> Option({SentVital})],
     floats : {"f"}]

ProtoScores ==
    [score_type : {"Curriculum", "Melee"}, score : {7},
     score_details : Option(ProtoScoreDetails)]

\* Category::from_proto, Vital::from_proto: field by field
Category_from_proto(category) ==
    [none |-> category.none, army |-> category.army, economy |-> category.economy,
     technology |-> category.technology, upgrade |-> category.upgrade]

Vital_from_proto(vital) ==
    [life |-> vital.life, shields |-> vital.shields, energy |-> vital.energy]

\* .as_ref().unwrap_or_default(): the sub-message, or an empty one
CategoryOrDefault(opt) == IF opt = {} THEN DefaultCategory ELSE CHOOSE c \in opt : TRUE
VitalOrDefault(opt) == IF opt = {} THEN DefaultVital ELSE CHOOSE v \in opt : TRUE

\* Score::from_proto: .expect() on score_details, unwrap_or_default() on the
\* sub-messages of the details
Score_from_proto(sc) ==
    IF sc.score_details = {} THEN [status |-> "panic", value |-> {}]
    ELSE LET details == CHOOSE d \in sc.score_details : TRUE
         IN [status |-> "ok",
             value |-> {[score_type |-> sc.score_type,
                         total_score |-> sc.score,
                         floats |-> details.floats,
                         categories |-> [f \in CategoryFields |->
                             Category_from_proto(CategoryOrDefault(details.categories[f]))],
                         vitals |-> [f \in VitalFields |->
                             Vital_from_proto(VitalOrDefault(details.vitals[f]))]]}]

NoScoreOut == [status |-> "none", value |-> {}]

\* No score is being decoded.
InitNoScore ==
    /\ score = [score_type |-> "Curriculum", score |-> 0, score_details |-> {}]
    /\ score_out = NoScoreOut

InitScore ==
    /\ score \in ProtoScores
    /\ score_out = NoScoreOut

DecodeScore ==
    /\ score_out.status = "none"
    /\ score_out' = Score_from_proto(score)
    /\ UNCHANGED <<score, apiVars, dbgVars, dataVars, infoVars, protoVars>>

NextScore == DecodeScore

(***************************************************************************)
(* Game info decoder (src/src/game_info.rs) and the encoding of            *)
(* DebugCommand::CreateUnit (src/src/debug.rs).                            *)
(* The integer types are modelled IntBits wide (i32, u32) and 2 * IntBits  *)
(* wide (usize), in place of 32 and 64 bits.                               *)
(***************************************************************************)
IntBits == 4
\* players in one ResponseGameInfo
MaxPlayers == 2

I32Min == -(2 ^ (IntBits - 1))
I32Max == 2 ^ (IntBits - 1) - 1
U32Max == 2 ^ IntBits - 1
UsizeMax == 2 ^ (2 * IntBits) - 1

\* the wire values the model draws
I32Samples == {I32Min, -1, 1, I32Max}
U32Samples == {0, 1, I32Max, I32Max + 1, U32Max}

\* `x as usize` for x: i32 (sign-extended, then reinterpreted)
I32_as_usize(x) == IF x < 0 THEN x + UsizeMax + 1 ELSE x
\* `x as i32` for x: u32 (reinterpreted)
U32_as_i32(x) == IF x > I32Max THEN x - (U32Max + 1) ELSE x
\* i32 arithmetic of a release build: wrapping
WrapI32(n) == ((n - I32Min) % (U32Max + 1)) + I32Min
OverflowsI32(n) == n < I32Min \/ n > I32Max
\* i32 `/ 2`: truncates toward zero
Half(n) == IF n >= 0 THEN n \div 2 ELSE -((-n) \div 2)

\* Size2DI / PointI: x and y are optional i32 read through x(), y()
ProtoPoints == [x : I32Samples, y : I32Samples]
DefaultPoint == [x |-> 0, y |-> 0]
PointOrDefault(opt) == IF opt = {} THEN DefaultPoint ELSE CHOOSE q \in opt : TRUE

ProtoAreas == [p0 : Option(ProtoPoints), p1 : Option(ProtoPoints)]
DefaultArea == [p0 |-> {}, p1 |-> {}]
AreaOrDefault(opt) == IF opt = {} THEN DefaultArea ELSE CHOOSE a \in opt : TRUE

ProtoStartRaws == [map_size : Option(ProtoPoints), playable_area : Option(ProtoAreas)]
DefaultStartRaw == [map_size |-> {}, playable_area |-> {}]
StartRawOrDefault(opt) == IF opt = {} THEN DefaultStartRaw ELSE CHOOSE r \in opt : TRUE

\* sc2api PlayerInfo: the fields GameInfo::from_proto reads
ProtoPlayerInfos ==
    [player_id : 1..MaxPlayers,
     type_ : {"Participant", "Computer", "Observer"},
     race_requested : {"Terran"},
     race_actual : {{}},
     difficulty : Option({"Hard"}),
     ai_build : Option({"Rush"}),
     player_name : {{"bot"}}]

\* the closure of .map(|i| ..): every optional field is mapped on its own
PlayerInfo_from_proto(i) ==
    [id |-> i.player_id,
     player_type |-> i.type_,
     race_requested |-> i.race_requested,
     race_actual |-> i.race_actual,
     difficulty |-> i.difficulty,
     ai_build |-> i.ai_build,
     player_name |-> i.player_name]

\* .collect() into FxHashMap<u32, PlayerInfo>: a later pair replaces an earlier
RECURSIVE PlayersFrom(_, _)
PlayersFrom(infos, map) ==
    IF infos = <<>> THEN map
    ELSE PlayersFrom(Tail(infos), Insert(map, PlayerInfo_from_proto(Head(infos))))

\* map_center: area_p0 + (area_p1 - area_p0) / 2 in i32, then `as f32`.
\* A debug build panics when the subtraction overflows; a release build wraps.
MapCenterCoord(p0, p1) == WrapI32(p0 + Half(WrapI32(p1 - p0)))

\* GameInfo::from_proto, for a build with (checks) or without overflow checks
GameInfo_from_proto(r, checks) ==
    LET start_raw == StartRawOrDefault(r.start_raw)
        map_size == PointOrDefault(start_raw.map_size)
        area == AreaOrDefault(start_raw.playable_area)
        area_p0 == PointOrDefault(area.p0)
        area_p1 == PointOrDefault(area.p1)
    IN IF checks /\ (OverflowsI32(area_p1.x - area_p0.x) \/ OverflowsI32(area_p1.y - area_p0.y))
       THEN [status |-> "panic", value |-> {}]
       ELSE [status |-> "ok",
             value |-> {[map_name |-> r.map_name,
                         players |-> PlayersFrom(r.player_info, <<>>),
                         map_size |-> [x |-> I32_as_usize(map_size.x),
                                       y |-> I32_as_usize(map_size.y)],
                         playable_area |-> [x0 |-> I32_as_usize(area_p0.x),
                                            y0 |-> I32_as_usize(area_p0.y),
                                            x1 |-> I32_as_usize(area_p1.x),
                                            y1 |-> I32_as_usize(area_p1.y)],
                         map_center |-> [x |-> MapCenterCoord(area_p0.x, area_p1.x),
                                         y |-> MapCenterCoord(area_p0.y, area_p1.y)]]}]

NoGameInfo == [status |-> "none", value |-> {}]
NoResponseGameInfo == [map_name |-> "map", player_info |-> <<>>, start_raw |-> {}]

\* DebugCommand::CreateUnit(type_id, owner, pos, count)
CreateUnitCommands == [unit_type : {1}, owner : Option(U32Samples), quantity : {1}]
NoDebugCommand == [unit_type |-> 1, owner |-> {}, quantity |-> 1]

\* into_proto, CreateUnit arm: the owner is set only when there is one
CreateUnit_into_proto(cmd) ==
    [unit_type |-> cmd.unit_type,
     owner |-> {U32_as_i32(o) : o \in cmd.owner},
     quantity |-> cmd.quantity]

\* No game info is being decoded and no command encoded.
InitNoInfo ==
    /\ response_game_info = NoResponseGameInfo
    /\ game_info = NoGameInfo
    /\ debug_command = NoDebugCommand
    /\ proto_debug_command = {}

\* A ResponseGameInfo with players and no start_raw, or with a start_raw and
\* no players; and a CreateUnit command.
InitInfo ==
    /\ \/ \E n \in 0..MaxPlayers :
             response_game_info \in [map_name : {"map"},
                                     player_info : [1..n -> ProtoPlayerInfos],
                                     start_raw : {{}}]
       \/ response_game_info \in [map_name : {"map"},
                                  player_info : {<<>>},
                                  start_raw : Option(ProtoStartRaws)]
    /\ game_info = NoGameInfo
    /\ debug_command \in CreateUnitCommands
    /\ proto_debug_command = {}

DecodeGameInfo ==
    /\ game_info.status = "none"
    /\ \E checks \in BOOLEAN : game_info' = GameInfo_from_proto(response_game_info, checks)
    /\ UNCHANGED <<response_game_info, protoVars, scoreVars, apiVars, dbgVars, dataVars>>

EncodeCreateUnit ==
    /\ proto_debug_command = {}
    /\ proto_debug_command' = {CreateUnit_into_proto(debug_command)}
    /\ UNCHANGED <<debug_command, infoVars, scoreVars, apiVars, dbgVars, dataVars>>

NextInfo == DecodeGameInfo \/ EncodeCreateUnit

\* No conversion is in progress.
InitNoConv == InitNoScore /\ InitNoInfo

(***************************************************************************)
(* Specifications.                                                         *)
(***************************************************************************)
NextAPI ==
    \/ \E c \in Callers : SendCall(c)
    \/ \E c \in Callers : SendLock(c)
    \/ \E c \in Callers : SendWrite(c)
    \/ \E c \in Callers : SendRead(c)
    \/ \E c \in Callers : SendDecode(c)
    \/ \E c \in Callers : SendRequestCall(c)
    \/ \E c \in Callers : SendRequestLock(c)
    \/ \E c \in Callers : SendRequestWrite(c)
    \/ \E c \in Callers : SendRequestRead(c)
    \/ \E c \in Callers : SendOnlyCall(c)
    \/ \E c \in Callers : SendOnlyLock(c)
    \/ \E c \in Callers : SendOnlyWrite(c)
    \/ \E c \in Callers : WaitResponseCall(c)
    \/ \E c \in Callers : WaitResponseLock(c)
    \/ \E c \in Callers : WaitResponseRead(c)
    \/ \E c \in Callers : WaitResponseDecode(c)
    \/ EngineReply

InitAPI == InitTransport /\ InitDebugger /\ InitNoData /\ InitNoConv

SpecAPI == InitAPI /\ [][NextAPI]_vars

\* Sanctioned use over a socket that never fails: callers use send,
\* send_request, or send_only followed by their own wait_response (which
\* the calls already impose through `pending`); every caller that holds the
\* connection goes on; a caller waiting for the connection gets it if it is
\* free again and again; the engine answers every request; a caller that
\* did send_only calls wait_response.
NextNoFailure ==
    \/ \E c \in Callers : SendCall(c)
    \/ \E c \in Callers : SendLock(c)
    \/ \E c \in Callers : SendWrite(c) /\ connOk'
    \/ \E c \in Callers : SendRead(c) /\ connOk'
    \/ \E c \in Callers : SendDecode(c)
    \/ \E c \in Callers : SendRequestCall(c)
    \/ \E c \in Callers : SendRequestLock(c)
    \/ \E c \in Callers : SendRequestWrite(c) /\ connOk'
    \/ \E c \in Callers : SendRequestRead(c) /\ connOk'
    \/ \E c \in Callers : SendOnlyCall(c)
    \/ \E c \in Callers : SendOnlyLock(c)
    \/ \E c \in Callers : SendOnlyWrite(c) /\ connOk'
    \/ \E c \in Callers : WaitResponseCall(c)
    \/ \E c \in Callers : WaitResponseLock(c)
    \/ \E c \in Callers : WaitResponseRead(c) /\ connOk'
    \/ \E c \in Callers : WaitResponseDecode(c)
    \/ EngineReply

LockStep(c) ==
    SendLock(c) \/ SendRequestLock(c) \/ SendOnlyLock(c) \/ WaitResponseLock(c)

SocketStep(c) ==
    /\ \/ SendWrite(c) \/ SendRead(c) \/ SendDecode(c)
       \/ SendRequestWrite(c) \/ SendRequestRead(c)
       \/ SendOnlyWrite(c)
       \/ WaitResponseRead(c) \/ WaitResponseDecode(c)
    /\ connOk'

FairAPI ==
    /\ WF_vars(EngineReply)
    /\ \A c \in Callers :
          /\ SF_vars(LockStep(c))
          /\ WF_vars(SocketStep(c))
          /\ WF_vars(WaitResponseCall(c))

SpecFair == InitAPI /\ [][NextNoFailure]_vars /\ FairAPI

\* Any use of the four operations: as SpecAPI, and wait_response may also be
\* called by a caller with no send_only of its own outstanding.
NextAnyUse ==
    \/ \E c \in Callers : SendCall(c)
    \/ \E c \in Callers : SendLock(c)
    \/ \E c \in Callers : SendWrite(c)
    \/ \E c \in Callers : SendRead(c)
    \/ \E c \in Callers : SendDecode(c)
    \/ \E c \in Callers : SendRequestCall(c)
    \/ \E c \in Callers : SendRequestLock(c)
    \/ \E c \in Callers : SendRequestWrite(c)
    \/ \E c \in Callers : SendRequestRead(c)
    \/ \E c \in Callers : SendOnlyCall(c)
    \/ \E c \in Callers : SendOnlyLock(c)
    \/ \E c \in Callers : SendOnlyWrite(c)
    \/ \E c \in Callers : WaitResponseCall(c)
    \/ \E c \in Callers : WaitResponseCallUnpaired(c)
    \/ \E c \in Callers : WaitResponseLock(c)
    \/ \E c \in Callers : WaitResponseRead(c)
    \/ \E c \in Callers : WaitResponseDecode(c)
    \/ EngineReply

SpecAnyUse == InitAPI /\ [][NextAnyUse]_vars

\* Two or more threads that only ever call send.
NextSend ==
    \/ \E c \in Callers : SendCall(c)
    \/ \E c \in Callers : SendLock(c)
    \/ \E c \in Callers : SendWrite(c)
    \/ \E c \in Callers : SendRead(c)
    \/ \E c \in Callers : SendDecode(c)
    \/ EngineReply

SpecSend == InitAPI /\ [][NextSend]_vars

InitDbg == InitTransport /\ InitDebugger /\ InitNoData /\ InitNoConv

SpecDebugger == InitDbg /\ [][NextDebugger]_vars

InitGameData == InitTransport /\ InitDebugger /\ InitData /\ InitNoConv

SpecGameData == InitGameData /\ [][NextGameData]_vars

InitEffectData == InitTransport /\ InitDebugger /\ InitEffects /\ InitNoConv

SpecEffectData == InitEffectData /\ [][NextGameData]_vars

InitScoreDecoder == InitTransport /\ InitDebugger /\ InitNoData /\ InitScore /\ InitNoInfo

InitGameInfo == InitTransport /\ InitDebugger /\ InitNoData /\ InitNoScore /\ InitInfo

SpecGameInfo == InitGameInfo /\ [][NextInfo]_vars

SpecScore == InitScoreDecoder /\ [][NextScore]_vars

(***************************************************************************)
(* Claims about the wire transport.                                        *)
(***************************************************************************)

\* C1: when the callers only call send, each caller's write is followed by
\* that caller's own read with no write or read of another caller in
\* between (the request it wrote is still the last one written when it
\* reads, and its read is the first after its write), and the Response it
\* gets is the reply to its own request.
C1_SendSerialized ==
    \A c \in Callers :
       /\ (opOf[c] = "send" /\ cur[c].seq > 0) =>
             /\ cur[c].sentAtRead = cur[c].own
             /\ cur[c].seq = cur[c].readsAtWrite + 1
       /\ (result[c].op = "send" /\ result[c].status = "ok") =>
             /\ result[c].reply = result[c].own
             /\ result[c].sentAtRead = result[c].own
             /\ result[c].seq = result[c].readsAtWrite + 1

\* Both callers got a Response from send, the second after the first.
C1_Witness ==
    \E c, d \in Callers :
       /\ c # d
       /\ result[c].op = "send" /\ result[c].status = "ok"
       /\ result[d].op = "send" /\ result[d].status = "ok"
       /\ result[c].own = 1 /\ result[d].own = 2

\* C2 as stated: every Response returned by send or wait_response is the
\* reply to the most recently sent request, which is the receiver's own.
C2_ReplyIsOwn ==
    \A c \in Callers :
       result[c].status = "ok" =>
          /\ result[c].reply = result[c].sentAtRead
          /\ result[c].reply = result[c].own

\* C2 amended: every Response is the reply to the oldest request whose reply
\* had not been read (the k-th message read answers the k-th request
\* written).  From send it is the receiver's own, most recently sent request
\* when no request was outstanding as send wrote; from wait_response it is
\* the receiver's own when, besides, nobody else read in between.
C2_ReplyIsOldest ==
    \A c \in Callers :
       result[c].status = "ok" =>
          /\ result[c].reply = result[c].seq
          /\ (result[c].op = "send" /\ result[c].clean) =>
                /\ result[c].reply = result[c].own
                /\ result[c].reply = result[c].sentAtRead
          /\ (result[c].op = "wait_response" /\ result[c].clean
                /\ result[c].seq = result[c].readsAtWrite + 1) =>
                result[c].reply = result[c].own

\* A send that wrote while another caller's send_only was pending returned
\* that caller's reply, and a clean send returned its own.
C2_Witness ==
    \E c, d \in Callers :
       /\ c # d
       /\ result[c].op = "send" /\ result[c].status = "ok" /\ ~result[c].clean
       /\ result[c].reply # result[c].own
       /\ result[d].op = "wait_response" /\ result[d].status = "ok"
       /\ result[d].reply = result[c].own

Owes(c) ==
    \/ pending[c]
    \/ (opOf[c] \in {"send", "send_request"} /\ pc[c] = "read")
    \/ (opOf[c] = "wait_response" /\ pc[c] \in {"lock", "read"})

\* C4 as stated: at most one request is written and not yet answered.
C4_AtMostOneOutstanding == Outstanding <= 1

\* C4 amended: while the connection is alive, the requests written whose
\* reply has not been read are one for each caller that has written and not
\* yet read: at most one per caller, not at most one overall.
C4_OneOutstandingPerCaller ==
    connOk => /\ Outstanding = Cardinality({c \in Callers : Owes(c)})
              /\ Outstanding <= NumCallers

\* Two callers have each done send_only: two requests are outstanding.
C4_Witness ==
    /\ connOk
    /\ Outstanding = 2
    /\ \A c \in Callers : c <= 2 => pending[c]

(***************************************************************************)
(* Claims about the command batcher.                                       *)
(***************************************************************************)
IsIndependent(c) == c.kind \notin {"Draw", "KillUnit"}
IsDraw(c) == c.kind = "Draw"
IsKillUnit(c) == c.kind = "KillUnit"

\* get_commands has just returned `returned`
JustFlushed == hist.lastOp = "get"

\* independent commands in issue order, then Draw, then KillUnit
FlushOrdered(cmds) ==
    /\ \A i, j \in DOMAIN cmds :
          i < j => /\ ~(~IsIndependent(cmds[i]) /\ IsIndependent(cmds[j]))
                   /\ ~(IsKillUnit(cmds[i]) /\ IsDraw(cmds[j]))
    /\ SelectSeq(cmds, IsIndependent) = hist.indep

\* at most one Draw and one KillUnit, the Draw carrying all the draws queued
OneBatchEach(cmds) ==
    /\ Len(SelectSeq(cmds, IsDraw)) <= 1
    /\ Len(SelectSeq(cmds, IsKillUnit)) <= 1
    /\ \A i \in DOMAIN cmds : IsDraw(cmds[i]) => cmds[i].draws = hist.flushedDraws
    /\ hist.flushedDraws # <<>> => \E i \in DOMAIN cmds : IsDraw(cmds[i])

\* C5 as stated: after any sequence of calls the list get_commands returns is
\* the independent commands in issue order, then the Draw batch, then the
\* KillUnit batch.
C5_FlushOrderAlways == JustFlushed => FlushOrdered(returned)

\* C5 amended: that order holds when no operation was queued between a
\* get_commands and the clear_commands that follows it.
C5_FlushOrder == (JustFlushed /\ ~hist.requeued) => FlushOrdered(returned)

\* An independent command, a Draw batch and a KillUnit batch were returned.
C5_Witness ==
    /\ JustFlushed /\ ~hist.requeued
    /\ Len(returned) = 3
    /\ IsIndependent(returned[1]) /\ IsDraw(returned[2]) /\ IsKillUnit(returned[3])

\* C6 as stated: after any sequence of calls the list holds at most one Draw
\* and at most one KillUnit, and the one Draw carries every draw queued, in
\* call order.
C6_OneBatchAlways == JustFlushed => OneBatchEach(returned)

\* C6 amended: that holds when no operation was queued between a
\* get_commands and the clear_commands that follows it.
C6_OneBatch == (JustFlushed /\ ~hist.requeued) => OneBatchEach(returned)

\* Two different draws were merged into the one Draw behind an independent
\* command.
C6_Witness ==
    /\ JustFlushed /\ ~hist.requeued
    /\ Len(returned) = 2
    /\ IsIndependent(returned[1]) /\ IsDraw(returned[2])
    /\ returned[2].draws = <<"Text", "Line">>

\* C7: a get_commands that directly follows a get_commands (no clear, no
\* queue operation between them) returns the same list as the first.
C7_RetrySameBatch ==
    [][(hist.lastOp = "get" /\ hist'.lastOp = "get") => returned' = returned]_vars

\* The second of two consecutive get_commands returned an independent
\* command, a Draw batch and a KillUnit batch.
C7_Witness ==
    /\ hist.lastOp = "get" /\ hist.prevOp = "get"
    /\ Len(returned) = 3
    /\ IsIndependent(returned[1]) /\ IsDraw(returned[2]) /\ IsKillUnit(returned[3])

\* the batches get_commands makes of the given draws and tags
Batches(draws, tags) ==
    {(IF draws # <<>> THEN <<Draw(draws)>> ELSE <<>>)
       \o (IF tags # {} THEN <<KillUnit(order)>> ELSE <<>>) : order \in DrainOrders(tags)}

\* C8 as stated: a get_commands issued right after clear_commands returns an
\* empty list, whatever preceded the clear.
C8_IdleAfterClear ==
    (hist.lastOp = "get" /\ hist.prevOp = "clear") => returned = <<>>

\* C8 amended: clear_commands empties the command list only; a get_commands
\* issued right after it returns the batches of the draws and kill tags
\* queued since the last get_commands and nothing else, so an empty list
\* when there are none (as when the clear directly follows a get_commands).
C8_ClearKeepsUnflushed ==
    /\ hist.lastOp = "clear" => debug_commands = <<>>
    /\ (hist.lastOp = "get" /\ hist.prevOp = "clear") =>
          returned \in Batches(hist.flushedDraws, hist.flushedTags)
    /\ (hist.lastOp = "clear" /\ hist.prevOp = "get") => Idle

\* A get_commands right after a clear_commands returned a Draw batch.
C8_Witness ==
    /\ hist.lastOp = "get" /\ hist.prevOp = "clear"
    /\ Len(returned) = 1
    /\ IsDraw(returned[1])

\* exactly one command, a KillUnit carrying each of the tags once
OneKillOf(cmds, tags) ==
    /\ Len(cmds) = 1
    /\ IsKillUnit(cmds[1])
    /\ Range(cmds[1].tags) = tags
    /\ Len(cmds[1].tags) = Cardinality(tags)

\* C9 as stated: kill_units calls (one or more) on an idle batcher, then one
\* get_commands, return exactly one KillUnit carrying the distinct tags
\* requested.
C9_OneKillAlways == hist.run = "flushed" => OneKillOf(returned, hist.flushedTags)

\* C9 amended: so it is when at least one tag was requested; when none was
\* (the calls passed no tags) the list is empty.
C9_OneKill ==
    hist.run = "flushed" =>
       IF hist.flushedTags = {} THEN returned = <<>>
       ELSE OneKillOf(returned, hist.flushedTags)

\* Every tag was requested and one KillUnit carrying them all was returned.
C9_Witness ==
    /\ hist.run = "flushed"
    /\ hist.flushedTags = Tags
    /\ Len(returned) = 1

(***************************************************************************)
(* Claims: catalog decoder.                                                *)
(***************************************************************************)
Kinds == {"abilities", "units", "upgrades", "buffs", "effects"}

\* The identifier code of each record of the response, by catalog.
OwnCode ==
    [abilities |-> [i \in DOMAIN data.abilities |-> data.abilities[i].ability_id],
     units |-> [i \in DOMAIN data.units |-> data.units[i].unit_id],
     upgrades |-> [i \in DOMAIN data.upgrades |-> data.upgrades[i].upgrade_id],
     buffs |-> [i \in DOMAIN data.buffs |-> data.buffs[i].buff_id],
     effects |-> [i \in DOMAIN data.effects |-> data.effects[i].effect_id]]

\* Whether that code is one of the catalog's known identifiers.
CodeKnown ==
    [abilities |-> [i \in DOMAIN data.abilities |-> OwnCode.abilities[i] \in AbilityIds],
     units |-> [i \in DOMAIN data.units |-> OwnCode.units[i] \in UnitTypeIds],
     upgrades |-> [i \in DOMAIN data.upgrades |-> OwnCode.upgrades[i] \in UpgradeIds],
     buffs |-> [i \in DOMAIN data.buffs |-> OwnCode.buffs[i] \in BuffIds],
     effects |-> [i \in DOMAIN data.effects |-> OwnCode.effects[i] \in EffectIds]]

\* Each record of the response decoded on its own.
Alone ==
    [abilities |-> [i \in DOMAIN data.abilities |->
                        AbilityData_try_from_proto(data.abilities[i])],
     units |-> [i \in DOMAIN data.units |-> UnitTypeData_try_from_proto(data.units[i])],
     upgrades |-> [i \in DOMAIN data.upgrades |->
                        UpgradeData_try_from_proto(data.upgrades[i])],
     buffs |-> [i \in DOMAIN data.buffs |-> BuffData_try_from_proto(data.buffs[i])],
     effects |-> [i \in DOMAIN data.effects |-> EffectData_try_from_proto(data.effects[i])]]

\* The catalog holds record i of kind k as it decodes on its own.
Present(k, i) ==
    /\ OwnCode[k][i] \in DOMAIN game_data[k]
    /\ {game_data[k][OwnCode[k][i]]} = Alone[k][i]

\* No later record of kind k decodes to the identifier of record i.
LastOfItsId(k, i) ==
    \A j \in DOMAIN data[k] :
        j > i => (Alone[k][j] = {} \/ OwnCode[k][j] # OwnCode[k][i])

\* C10 (as stated): decoding never fails; every record whose identifier code
\* is unknown is omitted from its catalog, and every other record of the
\* response is present in its catalog as it decodes on its own.
C10_EveryKnownPresent ==
    /\ ~decoded => ENABLED Decode
    /\ decoded =>
          \A k \in Kinds : \A i \in DOMAIN data[k] :
              IF CodeKnown[k][i] THEN Present(k, i)
              ELSE OwnCode[k][i] \notin DOMAIN game_data[k]

\* C10 (amended): decoding never fails; a record is omitted when its
\* identifier code is unknown, and an upgrade also when its ability code is
\* unknown; each catalog holds exactly the identifiers of the records that
\* decode, and for each of them the last such record in response order, as
\* it decodes on its own.
C10_LastResolvedPresent ==
    /\ ~decoded => ENABLED Decode
    /\ decoded =>
          \A k \in Kinds :
              /\ DOMAIN game_data[k] =
                     {OwnCode[k][i] : i \in {j \in DOMAIN data[k] : Alone[k][j] # {}}}
              /\ \A i \in DOMAIN data[k] :
                     /\ ~CodeKnown[k][i] => Alone[k][i] = {}
                     /\ (CodeKnown[k][i] /\ k # "upgrades") => Alone[k][i] # {}
                     /\ (Alone[k][i] # {} /\ LastOfItsId(k, i)) => Present(k, i)

\* C10 witness: a decoded response in which a record with an unknown code
\* precedes a record of the same catalog that decodes and is in the catalog.
C10_Witness ==
    /\ decoded
    /\ \E k \in Kinds : \E i, j \in DOMAIN data[k] :
          /\ i < j
          /\ ~CodeKnown[k][i]
          /\ Alone[k][j] # {}
          /\ Present(k, j)
          /\ OwnCode[k][i] \notin DOMAIN game_data[k]

\* The record of kind k decoded from record i of the response has the
\* identifier of that record's code, also in the catalog when no later
\* record has the same code.
DecodesWithItsId(k, i) ==
    /\ Alone[k][i] # {}
    /\ \A rec \in Alone[k][i] : rec.id = OwnCode[k][i]
    /\ (\A j \in DOMAIN data[k] : j > i => OwnCode[k][j] # OwnCode[k][i])
          => /\ OwnCode[k][i] \in DOMAIN game_data[k]
             /\ game_data[k][OwnCode[k][i]].id = OwnCode[k][i]

\* The ability code of upgrade record i is a known AbilityId.
UpgradeAbilityKnown(i) == data.upgrades[i].ability_id \in AbilityIds

\* C11 (as stated): for each catalog kind and every known identifier code i,
\* a record whose code is i decodes to a record with id = i, whatever its
\* other fields are.
C11_KnownIdDecodes ==
    decoded =>
        \A k \in Kinds : \A i \in DOMAIN data[k] :
            CodeKnown[k][i] => DecodesWithItsId(k, i)

\* C11 (amended): an ability, unit type, buff or effect record whose code is
\* a known identifier i decodes to a record with id = i whatever its other
\* fields are; an upgrade record does so exactly when its ability code is a
\* known AbilityId too, and decodes to no record otherwise.
C11_KnownIdDecodesUnlessUpgradeAbility ==
    decoded =>
        \A k \in Kinds : \A i \in DOMAIN data[k] :
            CodeKnown[k][i] =>
                IF k = "upgrades" /\ ~UpgradeAbilityKnown(i)
                THEN Alone[k][i] = {}
                ELSE DecodesWithItsId(k, i)

\* C11 witness: a unit record with a known code and unknown alias codes, and
\* an ability record with a known code and an unknown remap code, each
\* decoded into its catalog under its own identifier.
C11_Witness ==
    /\ decoded
    /\ Len(data.units) = 1 /\ Len(data.abilities) = 1
    /\ CodeKnown.units[1] /\ CodeKnown.abilities[1]
    /\ \E c \in data.units[1].unit_alias : c \notin UnitTypeIds
    /\ \E c \in data.abilities[1].remaps_to_ability_id : c \notin AbilityIds
    /\ game_data.units[OwnCode.units[1]].id = OwnCode.units[1]
    /\ game_data.abilities[OwnCode.abilities[1]].id = OwnCode.abilities[1]

\* The records of kind k, by position in the response, that decode to a
\* record with identifier id.
ResolvingTo(k, id) ==
    {i \in DOMAIN data[k] : \E rec \in Alone[k][i] : rec.id = id}

\* the last position of a non-empty set of positions
LastOf(S) == CHOOSE i \in S : \A j \in S : j <= i

\* C22: every catalog of a decoded GameData is keyed consistently: the record
\* under key k has id = k, it is one of the records of the response that
\* decode to that identifier (so a key has one record, and only identifiers
\* some record decodes to are keys), and of several such records it is the
\* last in response order.
C22_KeyedByIdLastWins ==
    decoded =>
        \A k \in Kinds :
            /\ \A key \in DOMAIN game_data[k] :
                  /\ game_data[k][key].id = key
                  /\ ResolvingTo(k, key) # {}
                  /\ Alone[k][LastOf(ResolvingTo(k, key))] = {game_data[k][key]}
            /\ \A i \in DOMAIN data[k] : \A rec \in Alone[k][i] :
                  rec.id \in DOMAIN game_data[k]

\* C22 witness: two different records of one catalog decode to the same
\* identifier, and the decoded catalog holds the second under that key.
C22_Witness ==
    /\ decoded
    /\ \E k \in Kinds : \E i, j \in DOMAIN data[k] :
          /\ i < j
          /\ Alone[k][i] # {} /\ Alone[k][j] # {}
          /\ Alone[k][i] # Alone[k][j]
          /\ \E key \in DOMAIN game_data[k] :
                /\ {i, j} \subseteq ResolvingTo(k, key)
                /\ game_data[k][key].id = key
                /\ Alone[k][j] = {game_data[k][key]}

(***************************************************************************)
(* Claims about the wire transport: failures and progress.                 *)
(***************************************************************************)
\* position of a caller in its operation, in program order
Rank(p) ==
    CASE p = "lock" -> 1 [] p = "write" -> 2 [] p = "read" -> 3
      [] p = "decode" -> 4 [] p = "idle" -> 5

\* caller c takes a step of its operation
Steps(c) == pc'[c] # pc[c]

\* C12: no transport operation retries: a caller only moves forward through
\* lock, write, read, decode; it writes at most once (at its write position;
\* wait_response never) and reads at most once (at its read position;
\* send_only never); a failed encode or write returns an error without a
\* read, a failed read returns an error, and a Response is returned only
\* from a decode, as the message that was read.
C12_NoRetryFirstFailure ==
    [][/\ (nextId' # nextId \/ nReads' # nReads \/ connOk' # connOk)
             => \E c \in Callers : Steps(c)
       /\ nextId' \in {nextId, nextId + 1}
       /\ nReads' \in {nReads, nReads + 1}
       /\ \A c \in Callers : Steps(c) =>
             /\ pc[c] # "idle" => Rank(pc'[c]) > Rank(pc[c])
             /\ nextId' # nextId => (pc[c] = "write" /\ opOf[c] # "wait_response")
             /\ nReads' # nReads => (pc[c] = "read" /\ opOf[c] # "send_only")
             /\ (pc[c] = "write" /\ nextId' = nextId)
                   => (pc'[c] = "idle" /\ result'[c].status = "err" /\ nReads' = nReads)
             /\ (pc[c] = "read" /\ nReads' = nReads)
                   => (pc'[c] = "idle" /\ result'[c].status = "err")
             /\ (pc'[c] = "idle" /\ result'[c].status = "ok")
                   => (pc[c] = "decode" /\ result'[c].reply = cur[c].msg
                       /\ cur[c].seq > 0)
      ]_vars

\* C12 witness: a send whose write failed has returned an error, having
\* written and read nothing.
C12_Witness ==
    \E c \in Callers :
        /\ result[c].op = "send" /\ result[c].status = "err"
        /\ result[c].own = 0 /\ result[c].seq = 0
        /\ pc[c] = "idle"
        /\ ~connOk
        /\ nReads = 0

\* caller c is inside send_only
InSendOnly(c) == opOf[c] = "send_only" /\ pc[c] # "idle"

\* caller d holds the connection and is blocked in ws.read(): no inbound
\* message has arrived
AwaitsInbound(d) == lock = d /\ pc[d] = "read" /\ connOk /\ fromEngine = <<>>

\* C13 (as stated): send_only never suspends: in no interleaving is a caller
\* inside send_only kept from going on until an inbound message arrives.
C13_NeverAwaitsInbound ==
    \A c \in Callers : InSendOnly(c) =>
        ~(pc[c] = "lock" /\ \E d \in Callers : AwaitsInbound(d))

\* C13 (amended): send_only never reads, and once it holds the connection
\* it writes and returns whether or not an inbound message has arrived; but
\* it first waits for the connection, which it gets exactly when no other
\* operation holds it.
C13_WaitsOnlyForConnection ==
    \A c \in Callers :
        /\ InSendOnly(c) => (pc[c] \in {"lock", "write"} /\ cur[c].seq = 0)
        /\ result[c].op = "send_only" => (result[c].seq = 0 /\ result[c].status # "ok")
        /\ (InSendOnly(c) /\ pc[c] = "write") => (lock = c /\ ENABLED SendOnlyWrite(c))
        /\ (InSendOnly(c) /\ pc[c] = "lock") => (ENABLED SendOnlyLock(c) <=> lock = 0)

\* C13 witness: with another caller inside an operation, a send_only has
\* written its request and returned while no inbound message had arrived.
C13_Witness ==
    \E c, d \in Callers :
        /\ c # d
        /\ result[c].op = "send_only" /\ result[c].status = "unit"
        /\ pc[c] = "idle" /\ pending[c]
        /\ opOf[d] # "none"
        /\ nReads = 0 /\ fromEngine = <<>> /\ toEngine # <<>>

(***************************************************************************)
(* Claims: score decoder.                                                  *)
(***************************************************************************)
\* some sub-message of the score is missing: the details, or a category or
\* vital sub-message inside them
SubMessageMissing ==
    \/ score.score_details = {}
    \/ \E d \in score.score_details :
          \/ \E f \in CategoryFields : d.categories[f] = {}
          \/ \E f \in VitalFields : d.vitals[f] = {}

\* C14: a missing sub-message always makes the decode call fault: whenever
\* from_proto has returned a Score, no sub-message of the score was missing
\* (none was replaced by an empty default).
C14_FaultOnMissing ==
    score_out.status # "none" =>
        (SubMessageMissing <=> score_out.status = "panic")

(***************************************************************************)
(* Claims: effect records.                                                 *)
(***************************************************************************)
\* the effect records decoded from the response, each on its own
EffectRecords == UNION {Alone.effects[i] : i \in DOMAIN data.effects}

AnyAndFriendlyFire(rec) == rec.target = "Any" /\ rec.friendly_fire
GroundOnly(rec) == rec.target = "Ground" /\ ~rec.friendly_fire

\* target and friendly_fire depend on the identifier only
FunctionOfId ==
    \A r1, r2 \in EffectRecords :
        r1.id = r2.id => (r1.target = r2.target /\ r1.friendly_fire = r2.friendly_fire)

\* the identifiers that decode to 'targets anything' with friendly fire
AnyAndFriendlyFireIds ==
    {c \in EffectCodes :
        \E rec \in EffectData_try_from_proto([effect_id |-> c, name |-> "x"]) :
            AnyAndFriendlyFire(rec)}

\* C15 (as stated): target and friendly_fire are a function of the
\* identifier only; exactly four identifiers are both 'targets anything'
\* and friendly-fire capable, and every other identifier decodes to
\* target = Ground and friendly_fire = false.
C15_FourAnyFriendly ==
    (decoded /\ EffectRecords # {}) =>
        /\ FunctionOfId
        /\ Cardinality(AnyAndFriendlyFireIds) = 4
        /\ \A rec \in EffectRecords : AnyAndFriendlyFire(rec) \/ GroundOnly(rec)

\* C15 (amended): target and friendly_fire are a function of the identifier
\* only; three identifiers (PsiStormPersistent, NukePersistent,
\* RavagerCorrosiveBileCP) are 'targets anything' and friendly-fire capable,
\* two more (Null, ScannerSweep) are 'targets anything' without friendly
\* fire, and every other identifier decodes to Ground without friendly fire.
C15_ThreeFriendlyFiveAny ==
    (decoded /\ EffectRecords # {}) =>
        /\ FunctionOfId
        /\ AnyAndFriendlyFireIds = {EffectId_PsiStormPersistent, EffectId_NukePersistent,
                                    EffectId_RavagerCorrosiveBileCP}
        /\ \A rec \in EffectRecords :
              IF rec.id \in AnyAndFriendlyFireIds THEN AnyAndFriendlyFire(rec)
              ELSE IF rec.id \in {EffectId_Null, EffectId_ScannerSweep}
                   THEN rec.target = "Any" /\ ~rec.friendly_fire
                   ELSE GroundOnly(rec)
        /\ \A i \in DOMAIN data.effects :
              (Alone.effects[i] # {} /\ LastOfItsId("effects", i)) => Present("effects", i)

\* C15 witness: two ScannerSweep records with different names decoded, the
\* catalog's ScannerSweep being 'targets anything' without friendly fire.
C15_Witness ==
    /\ decoded
    /\ Len(data.effects) = 2
    /\ data.effects[1].effect_id = EffectId_ScannerSweep
    /\ data.effects[2].effect_id = EffectId_ScannerSweep
    /\ data.effects[1].name # data.effects[2].name
    /\ game_data.effects[EffectId_ScannerSweep].target = "Any"
    /\ ~game_data.effects[EffectId_ScannerSweep].friendly_fire

(***************************************************************************)
(* Claims: game info and numeric conversions.                              *)
(***************************************************************************)
\* the GameInfo values from_proto has returned (none or one)
DecodedInfos == IF game_info.status = "ok" THEN game_info.value ELSE {}

\* C16: in every PlayerInfo decoded from a ResponseGameInfo, difficulty and
\* ai_build are None unless player_type is Computer.
C16_DifficultyOnlyForComputer ==
    \A g \in DecodedInfos : \A id \in DOMAIN g.players :
        g.players[id].player_type # "Computer"
            => (g.players[id].difficulty = {} /\ g.players[id].ai_build = {})

\* the wire values GameInfo::from_proto converts
WireMapSize == PointOrDefault(StartRawOrDefault(response_game_info.start_raw).map_size)
WireArea == AreaOrDefault(StartRawOrDefault(response_game_info.start_raw).playable_area)
WireP0 == PointOrDefault(WireArea.p0)
WireP1 == PointOrDefault(WireArea.p1)

\* C17: no numeric conversion between wire and domain integers wraps: the
\* decoded map size and playable area equal the wire's i32 values, and the
\* encoded create-unit owner equals the command's u32 owner.
C17_NoSilentWrap ==
    /\ \A g \in DecodedInfos :
          /\ g.map_size.x = WireMapSize.x
          /\ g.map_size.y = WireMapSize.y
          /\ g.playable_area.x0 = WireP0.x
          /\ g.playable_area.y0 = WireP0.y
          /\ g.playable_area.x1 = WireP1.x
          /\ g.playable_area.y1 = WireP1.y
    /\ \A p \in proto_debug_command : p.owner = debug_command.owner

(***************************************************************************)
(* Claims about the command batcher: idempotence and loss.                 *)
(***************************************************************************)
\* C18: get_commands on a batcher with nothing queued returns an empty list
\* and leaves the batcher as it was, and a clear_commands that directly
\* follows a clear_commands changes nothing in the batcher.
C18_ClearAndEmptyFlushIdempotent ==
    [][/\ (Idle /\ hist'.lastOp = "get") => (returned' = <<>> /\ Idle')
       /\ (hist.lastOp = "clear" /\ hist'.lastOp = "clear")
             => UNCHANGED <<debug_commands, debug_drawings, kill_tags>>
      ]_vars

\* C18 witness: get_commands was called on an idle batcher right after a
\* clear_commands; it returned the empty list and the batcher is idle.
C18_Witness ==
    /\ hist.lastOp = "get" /\ hist.prevOp = "clear"
    /\ hist.flushedDraws = <<>> /\ hist.flushedTags = {}
    /\ returned = <<>>
    /\ Idle

\* C19: no queued operation is discarded unsent: a clear_commands removes no
\* independent command that no get_commands has returned, and removes no
\* queued draw or kill tag.
C19_NothingDiscardedUnsent ==
    [][hist'.lastOp = "clear" =>
          /\ hist.unsent = <<>>
          /\ UNCHANGED <<debug_drawings, kill_tags>>
      ]_vars

(***************************************************************************)
(* Claims about the wire transport: progress.                              *)
(***************************************************************************)
\* C20: under sanctioned use, a fair lock, a socket that never fails and an
\* engine that answers every request, every transport operation that is
\* started eventually returns.
C20_EveryOperationReturns ==
    \A c \in Callers : (pc[c] # "idle") ~> (pc[c] = "idle")

\* C20 witness: a caller waits for the connection while another caller
\* holds it, blocked in its read with no reply arrived yet.
C20_Witness ==
    \E c, d \in Callers :
        /\ c # d
        /\ pc[c] = "lock"
        /\ AwaitsInbound(d)
        /\ toEngine # <<>>

(***************************************************************************)
(* Claims about the wire transport: a wait_response with nothing to read.  *)
(***************************************************************************)
\* caller c is inside the read of wait_response and no request is outstanding
BlockedWithNothingOutstanding(c) ==
    /\ pc[c] = "read"
    /\ opOf[c] = "wait_response"
    /\ Outstanding = 0

\* caller d is in an operation that has yet to finish with the socket
YetToUseSocket(d) == pc[d] \in {"lock", "write", "read"}

\* while c is blocked so, it stays so, holding the connection, and no
\* operation that has yet to finish with the socket returns
StaysBlocked(c) ==
    /\ BlockedWithNothingOutstanding(c)'
    /\ lock' = c
    /\ \A d \in Callers : YetToUseSocket(d) => pc'[d] # "idle"

\* C21 (as stated): a wait_response that is blocked on the socket read while
\* no request is outstanding keeps the connection, so no other caller writes
\* a request, and neither it nor any operation still to use the socket ever
\* returns.
C21_NeverReturns ==
    [][\A c \in Callers : BlockedWithNothingOutstanding(c) => StaysBlocked(c)]_vars

\* C21 (amended): the same for as long as the connection does not fail; a
\* failed read makes wait_response return an error and release the
\* connection.
C21_BlockedUntilConnectionFails ==
    [][\A c \in Callers :
          BlockedWithNothingOutstanding(c) /\ connOk' => StaysBlocked(c)]_vars

\* C21 witness: a wait_response is blocked on a working connection with
\* nothing outstanding while another caller's send_only waits for the lock.
C21_Witness ==
    \E c, d \in Callers :
        /\ c # d
        /\ BlockedWithNothingOutstanding(c)
        /\ lock = c
        /\ connOk
        /\ pc[d] = "lock"
        /\ opOf[d] = "send_only"

====
